---- MODULE Spec2Model ----
(***************************************************************************)
(* Proof by Output: the terminal pipeline (src/app.py) and the             *)
(* interactive-UI pipeline (src/web_app.py).                               *)
(*                                                                         *)
(* A text is a sequence of characters; a character is a one-element name   *)
(* ("a", "A", " ", ...).  Characters outside ASCII are named by their code *)
(* point: "U3042" (HIRAGANA A), "U3000" (IDEOGRAPHIC SPACE), "U212A"       *)
(* (KELVIN SIGN, whose str.lower() is the ASCII letter k) and "UD800" (a   *)
(* lone surrogate, which json.loads accepts and UTF-8 cannot encode).      *)
(***************************************************************************)
EXTENDS Integers, Sequences, FiniteSets, TLC

VARIABLES
    text,       \* SpecSlug: the argument of safe_filename
    slug,       \* SpecSlug: safe_filename(text)
    reslug,     \* SpecSlug: safe_filename(slug)
    slugpc,     \* SpecSlug: "in", "once", "twice"
    vin,        \* SpecValidate: [pipeline, api_key, topic, explanation]
    verdict,    \* SpecValidate: what validate_input returned
    files,      \* outputs/*.json : file name -> content (a sequence of chunks)
    clock,      \* datetime.now(), in seconds
    api_key,    \* whether OPENAI_API_KEY is set
    last,       \* what the last interaction did
    history,    \* what load_history returned last
    log,        \* the entries load_history reported as skipped
    ops         \* the number of interactions so far

vars == <<text, slug, reslug, slugpc, vin, verdict,
          files, clock, api_key, last, history, log, ops>>

slugVars == <<text, slug, reslug, slugpc>>
validateVars == <<vin, verdict>>
storeVars == <<files, clock, api_key, last, history, log, ops>>

----------------------------------------------------------------------------
(* Configuration *)

MIN_CHARS == 60
max_len == 40
HISTORY_LIMIT == 50

APP_NAME == <<"Proof by Output">>

----------------------------------------------------------------------------
(* Bounds of the model *)

\* safe_filename is applied to a run of 0 or max_len - PadSlack .. max_len
\* letters followed by every text of at most MaxTail characters.
MaxTail == 2
PadSlack == 2

----------------------------------------------------------------------------
(* Characters *)

LowerLetters == <<"a", "b", "c", "d", "e", "f", "g", "h", "i", "j", "k", "l", "m",
                  "n", "o", "p", "q", "r", "s", "t", "u", "v", "w", "x", "y", "z">>
UpperLetters == <<"A", "B", "C", "D", "E", "F", "G", "H", "I", "J", "K", "L", "M",
                  "N", "O", "P", "Q", "R", "S", "T", "U", "V", "W", "X", "Y", "Z">>
Digits == <<"0", "1", "2", "3", "4", "5", "6", "7", "8", "9">>

Range(s) == {s[i] : i \in DOMAIN s}

\* The ASCII characters of the model, in code order (for comparing file names).
Ascii == <<"\n", " ", "!", "\"", "-", ".">> \o Digits \o UpperLetters
            \o <<"\\", "_">> \o LowerLetters

\* The characters of the model outside ASCII; every other symbol is ASCII text.
NonAscii == {"U3042", "U3000", "U212A", "UD800"}

IsAscii(c) == c \notin NonAscii

\* str.strip() with no argument strips Unicode whitespace.
Whitespace == {" ", "\n", "U3000"}

\* str.lower(): ASCII and non-ASCII cased letters; KELVIN SIGN lowers to "k".
Lower(c) ==
    IF c \in Range(UpperLetters)
    THEN LowerLetters[CHOOSE i \in DOMAIN UpperLetters : UpperLetters[i] = c]
    ELSE IF c = "U212A" THEN "k" ELSE c

\* The class [a-z0-9_-] of the regular expression.
IsSafe(c) == c \in Range(LowerLetters) \cup Range(Digits) \cup {"_", "-"}

RECURSIVE LStrip(_, _)
LStrip(s, drop) ==
    IF s # <<>> /\ Head(s) \in drop THEN LStrip(Tail(s), drop) ELSE s

RECURSIVE RStrip(_, _)
RStrip(s, drop) ==
    IF s # <<>> /\ s[Len(s)] \in drop THEN RStrip(SubSeq(s, 1, Len(s) - 1), drop) ELSE s

Strip(s, drop) == RStrip(LStrip(s, drop), drop)

LowerText(s) == [i \in DOMAIN s |-> Lower(s[i])]

\* re.sub(r"[^a-z0-9_-]+", "_", s): every maximal run of characters outside the
\* class becomes one underscore.
RECURSIVE ReSub(_)
ReSub(s) ==
    IF s = <<>> THEN <<>>
    ELSE IF IsSafe(Head(s)) THEN <<Head(s)>> \o ReSub(Tail(s))
    ELSE <<"_">> \o ReSub(LStrip(Tail(s), {c \in Range(s) : ~IsSafe(c)}))

Take(s, n) == SubSeq(s, 1, IF n < Len(s) THEN n ELSE Len(s))

Fallback == <<"t", "o", "p", "i", "c">>

\* A slip: no fallback for an empty result.
safe_filename_NoFallback(t, n) ==
    Take(Strip(ReSub(LowerText(Strip(t, Whitespace))), {"_"}), n)

safe_filename(t, n) ==
    LET s == Take(Strip(ReSub(LowerText(Strip(t, Whitespace))), {"_"}), n)
    IN  IF s = <<>> THEN Fallback ELSE s

count_chars(t) == Len(t)

----------------------------------------------------------------------------
(* Inputs *)

Alphabet == {"a", "A", "0", "_", "-", " ", "!", "U3042", "U3000", "U212A"}

RECURSIVE Texts(_, _)
Texts(alphabet, n) ==
    IF n = 0 THEN {<<>>}
    ELSE LET shorter == Texts(alphabet, n - 1)
         IN  shorter \cup {Append(t, c) : t \in shorter, c \in alphabet}

Pad(c, n) == [i \in 1..n |-> c]

SlugInputs ==
    {Pad("a", k) \o t : k \in {0} \cup ((max_len - PadSlack)..max_len),
                        t \in Texts(Alphabet, MaxTail)}

----------------------------------------------------------------------------
(* SpecSlug: safe_filename applied once and twice *)

StoreIdle ==
    /\ files = <<>>
    /\ clock = 0
    /\ api_key = TRUE
    /\ last = [op |-> "none"]
    /\ history = [called |-> FALSE, limit |-> 0, records |-> <<>>]
    /\ log = {}
    /\ ops = 0

ValidateIdle ==
    /\ vin = [pipeline |-> "cli", api_key |-> TRUE, topic |-> <<>>, explanation |-> <<>>]
    /\ verdict = [ok |-> FALSE, kind |-> "unset", count |-> 0, remain |-> 0]

SlugIdle ==
    /\ text = <<>>
    /\ slug = <<>>
    /\ reslug = <<>>
    /\ slugpc = "in"

InitSlug ==
    /\ text \in SlugInputs
    /\ slug = <<>>
    /\ reslug = <<>>
    /\ slugpc = "in"
    /\ ValidateIdle
    /\ StoreIdle

Slugify ==
    /\ slugpc = "in"
    /\ slug' = safe_filename(text, max_len)
    /\ slugpc' = "once"
    /\ UNCHANGED <<text, reslug, validateVars, storeVars>>

Reslugify ==
    /\ slugpc = "once"
    /\ reslug' = safe_filename(slug, max_len)
    /\ slugpc' = "twice"
    /\ UNCHANGED <<text, slug, validateVars, storeVars>>

NextSlug == Slugify \/ Reslugify

SpecSlug == InitSlug /\ [][NextSlug]_vars

----------------------------------------------------------------------------
(* Claims about safe_filename *)

\* C9 (as stated): safe_filename is idempotent: for every input x,
\* safe_filename(safe_filename(x)) = safe_filename(x), inputs longer than
\* max_len included.
C9_Idempotent == slugpc = "twice" => reslug = slug

\* C9: an input whose 40-character prefix ends in an underscore has been
\* slugged twice.
C9_Witness ==
    /\ slugpc = "twice"
    /\ Len(text) > max_len
    /\ slug[Len(slug)] = "_"

----------------------------------------------------------------------------
(* validate_input *)

Verdict(ok, kind, count, remain) ==
    [ok |-> ok, kind |-> kind, count |-> count, remain |-> remain]

\* A slip: the deficit is computed from the wrong side of the comparison.
validate_input_OffByOne(pipeline, key, topic, explanation) ==
    LET char_count == count_chars(explanation)
    IN  IF topic = <<>> THEN Verdict(FALSE, "topic_required", 0, 0)
        ELSE IF char_count < MIN_CHARS
        THEN Verdict(FALSE, "too_short", char_count, MIN_CHARS - char_count - 1)
        ELSE IF pipeline = "web" /\ ~key THEN Verdict(FALSE, "no_api_key", 0, 0)
        ELSE Verdict(TRUE, "", 0, 0)

\* The message is modelled by its kind and the numbers formatted into it:
\* "too_short" carries the current count and the deficit.
validate_input(pipeline, key, topic, explanation) ==
    LET char_count == count_chars(explanation)
    IN  IF topic = <<>> THEN Verdict(FALSE, "topic_required", 0, 0)
        ELSE IF char_count < MIN_CHARS
        THEN Verdict(FALSE, "too_short", char_count, MIN_CHARS - char_count)
        ELSE IF pipeline = "web" /\ ~key THEN Verdict(FALSE, "no_api_key", 0, 0)
        ELSE Verdict(TRUE, "", 0, 0)

\* validate_input is applied to every topic of at most MaxTopicLen characters
\* and every explanation of at most MIN_CHARS + MaxOver characters.
MaxTopicLen == 2
MaxOver == 1

TopicAlphabet == {"a", " ", "U3042"}

ValidateInputs ==
    [pipeline : {"cli", "web"},
     api_key : BOOLEAN,
     topic : Texts(TopicAlphabet, MaxTopicLen),
     explanation : {Pad("U3042", n) : n \in 0..(MIN_CHARS + MaxOver)}]

InitValidate ==
    /\ vin \in ValidateInputs
    /\ verdict = Verdict(FALSE, "unset", 0, 0)
    /\ SlugIdle
    /\ StoreIdle

Validate ==
    /\ verdict.kind = "unset"
    /\ verdict' = validate_input(vin.pipeline, vin.api_key, vin.topic, vin.explanation)
    /\ UNCHANGED <<vin, slugVars, storeVars>>

NextValidate == Validate

SpecValidate == InitValidate /\ [][NextValidate]_vars

\* C7 (as stated): for every explanation of fewer than 60 characters, whatever
\* the topic, validate returns failure and its message reports the current
\* character count and the deficit 60 - char_count.
C7_Original ==
    (verdict.kind # "unset" /\ Len(vin.explanation) < MIN_CHARS) =>
        /\ ~verdict.ok
        /\ verdict.kind = "too_short"
        /\ verdict.count = Len(vin.explanation)
        /\ verdict.remain = MIN_CHARS - Len(vin.explanation)

\* C7 (amended): for every non-empty topic and every explanation of fewer than
\* 60 characters, validate returns failure and its message reports the current
\* character count and the deficit 60 - char_count; for an empty topic it
\* returns the topic-required failure whatever the explanation.
C7_Deficit ==
    verdict.kind # "unset" =>
        /\ (vin.topic # <<>> /\ Len(vin.explanation) < MIN_CHARS) =>
              /\ ~verdict.ok
              /\ verdict.kind = "too_short"
              /\ verdict.count = Len(vin.explanation)
              /\ verdict.remain = MIN_CHARS - Len(vin.explanation)
        /\ vin.topic = <<>> => (~verdict.ok /\ verdict.kind = "topic_required")

\* C7: a 40-character explanation of a non-empty topic has been rejected with
\* deficit 20.
C7_Witness ==
    /\ vin.topic # <<>>
    /\ Len(vin.explanation) = 40
    /\ verdict.kind = "too_short"
    /\ verdict.remain = 20

----------------------------------------------------------------------------
(* JSON: values, json.dump's chunks, json.load *)

\* A value is a string, an integer or an object (keys in insertion order).
\* A key is a text of one symbol (<<"topic">>).
JStr(t) == [ty |-> "str", s |-> t, n |-> 0, items |-> <<>>]
JInt(i) == [ty |-> "int", s |-> <<>>, n |-> i, items |-> <<>>]
JDict(kvs) == [ty |-> "dict", s |-> <<>>, n |-> 0, items |-> kvs]

\* A chunk of JSON text: punctuation, a string literal (the characters between
\* its quotes, escapes included), a number literal (its digits), or other text.
Tok(k, v) == [k |-> k, v |-> v]
Punct(c) == Tok(c, <<>>)

RECURSIVE IntToDigits(_)
IntToDigits(i) ==
    IF i < 10 THEN <<Digits[i + 1]>>
    ELSE Append(IntToDigits(i \div 10), Digits[(i % 10) + 1])

DigitValue(c) == (CHOOSE i \in DOMAIN Digits : Digits[i] = c) - 1

RECURSIVE DigitsToInt(_)
DigitsToInt(d) ==
    IF d = <<>> THEN 0
    ELSE 10 * DigitsToInt(SubSeq(d, 1, Len(d) - 1)) + DigitValue(d[Len(d)])

\* The \uXXXX escape of a character outside ASCII.
UEscape(c) ==
    CASE c = "U3042" -> "u3042"
      [] c = "U3000" -> "u3000"
      [] c = "U212A" -> "u212a"
      [] c = "UD800" -> "ud800"
      [] OTHER -> c

UEscapes == {"u3042", "u3000", "u212a", "ud800"}

UUnescape(e) ==
    CASE e = "u3042" -> "U3042"
      [] e = "u3000" -> "U3000"
      [] e = "u212a" -> "U212A"
      [] e = "ud800" -> "UD800"
      [] OTHER -> e

\* json.encoder's string escaping. With ensure_ascii false only the quote,
\* the backslash and control characters are escaped.
EscapeChar(c, ensure_ascii) ==
    CASE c = "\"" -> <<"\\", "\"">>
      [] c = "\\" -> <<"\\", "\\">>
      [] c = "\n" -> <<"\\", "n">>
      [] OTHER -> IF ensure_ascii /\ ~IsAscii(c) THEN <<"\\", UEscape(c)>> ELSE <<c>>

\* The concatenation of a sequence of texts (by halves, to keep the
\* evaluation shallow on long texts).
RECURSIVE Concat(_)
Concat(ts) ==
    IF DOMAIN ts = {} THEN <<>>
    ELSE IF Len(ts) = 1 THEN ts[1]
    ELSE LET m == Len(ts) \div 2
         IN  Concat(SubSeq(ts, 1, m)) \o Concat(SubSeq(ts, m + 1, Len(ts)))

Escape(t, ensure_ascii) == Concat([i \in DOMAIN t |-> EscapeChar(t[i], ensure_ascii)])

\* The number of consecutive backslashes that end just before position i.
BackslashRun(e, i) ==
    LET runs == {k \in 0..(i - 1) : \A j \in (i - k)..(i - 1) : e[j] = "\\"}
    IN  CHOOSE k \in runs : \A m \in runs : m <= k

\* Position i is the second character of an escape: scanning from the left,
\* it follows a backslash that is not itself escaped.
IsEscaped(e, i) == i > 1 /\ e[i - 1] = "\\" /\ BackslashRun(e, i) % 2 = 1

\* json.decoder's scanstring on the characters between the quotes: a bare
\* quote, a raw control character, a bad escape or a trailing backslash is a
\* decode error.
BadAt(e, i) ==
    IF IsEscaped(e, i) THEN e[i] \notin {"\"", "\\", "n"} \cup UEscapes
    ELSE IF e[i] = "\\" THEN i = Len(e)
    ELSE e[i] \in {"\"", "\n"}

\* The character an escape, or a plain character, at position i stands for.
DecodedAt(e, i) ==
    IF ~IsEscaped(e, i) THEN e[i]
    ELSE IF e[i] = "n" THEN "\n"
    ELSE UUnescape(e[i])

Unescape(e) ==
    IF \E i \in DOMAIN e : BadAt(e, i) THEN [ok |-> FALSE, s |-> <<>>]
    ELSE [ok |-> TRUE,
          s |-> Concat([i \in DOMAIN e |->
                           IF e[i] # "\\" \/ IsEscaped(e, i)
                           THEN <<DecodedAt(e, i)>> ELSE <<>>])]

\* A slip: the quote is written unescaped.
EncodeString_NoQuoteEscape(t, ensure_ascii) ==
    Tok("str", IF "\"" \in Range(t) THEN t ELSE Escape(t, ensure_ascii))

EncodeString(t, ensure_ascii) == Tok("str", Escape(t, ensure_ascii))

\* JSONEncoder.iterencode: the chunks json.dump writes one by one.
RECURSIVE IterEncode(_, _)
RECURSIVE EncodeItems(_, _)
IterEncode(v, ensure_ascii) ==
    CASE v.ty = "str" -> <<EncodeString(v.s, ensure_ascii)>>
      [] v.ty = "int" -> <<Tok("num", IntToDigits(v.n))>>
      [] OTHER -> <<Punct("{")>> \o EncodeItems(v.items, ensure_ascii) \o <<Punct("}")>>

EncodeItems(kvs, ensure_ascii) ==
    IF kvs = <<>> THEN <<>>
    ELSE <<EncodeString(kvs[1][1], ensure_ascii), Punct(":")>>
            \o IterEncode(kvs[1][2], ensure_ascii)
            \o (IF Len(kvs) > 1 THEN <<Punct(",")>> ELSE <<>>)
            \o EncodeItems(Tail(kvs), ensure_ascii)

ParseFail == [ok |-> FALSE, v |-> JInt(0), rest |-> <<>>]

\* JSONDecoder.scan_once: one value from the front of the text.
RECURSIVE ParseValue(_)
RECURSIVE ParseItems(_, _)
ParseValue(toks) ==
    IF toks = <<>> THEN ParseFail
    ELSE LET h == Head(toks) IN
         CASE h.k = "str" ->
                LET u == Unescape(h.v)
                IN  IF u.ok THEN [ok |-> TRUE, v |-> JStr(u.s), rest |-> Tail(toks)]
                    ELSE ParseFail
           [] h.k = "num" ->
                [ok |-> TRUE, v |-> JInt(DigitsToInt(h.v)), rest |-> Tail(toks)]
           [] h.k = "{" ->
                IF Len(toks) >= 2 /\ toks[2].k = "}"
                THEN [ok |-> TRUE, v |-> JDict(<<>>), rest |-> SubSeq(toks, 3, Len(toks))]
                ELSE ParseItems(Tail(toks), <<>>)
           [] OTHER -> ParseFail

ParseItems(toks, acc) ==
    IF Len(toks) < 2 \/ toks[1].k # "str" \/ toks[2].k # ":" THEN ParseFail
    ELSE LET key == Unescape(toks[1].v)
             val == ParseValue(SubSeq(toks, 3, Len(toks)))
         IN  IF ~key.ok \/ ~val.ok \/ val.rest = <<>> THEN ParseFail
             ELSE LET kvs == Append(acc, <<key.s, val.v>>)
                      sep == Head(val.rest)
                  IN  CASE sep.k = "}" ->
                             [ok |-> TRUE, v |-> JDict(kvs), rest |-> Tail(val.rest)]
                        [] sep.k = "," -> ParseItems(Tail(val.rest), kvs)
                        [] OTHER -> ParseFail

\* json.loads / json.load: the whole text is one value, or JSONDecodeError.
JsonLoads(toks) ==
    LET p == ParseValue(toks)
    IN  IF p.ok /\ p.rest = <<>> THEN [ok |-> TRUE, v |-> p.v]
        ELSE [ok |-> FALSE, v |-> JInt(0)]

----------------------------------------------------------------------------
(* The record store: outputs/*.json *)

Key(name) == <<name>>

OUTPUT_EXT == <<".", "j", "s", "o", "n">>

\* strftime("%Y%m%d_%H%M%S") is fixed-width and zero-padded; the model's clock
\* counts seconds and is written as two digits.
Timestamp(now) == <<Digits[(now \div 10) + 1], Digits[(now % 10) + 1]>>

\* A slip: the file name carries no timestamp.
RecordName_NoTimestamp(now, topic) ==
    Timestamp(0) \o <<"_">> \o safe_filename(topic, max_len) \o OUTPUT_EXT

\* OUTPUT_DIR / f"{ts}_{name}.json"
RecordName(now, topic) ==
    Timestamp(now) \o <<"_">> \o safe_filename(topic, max_len) \o OUTPUT_EXT

Payload(now, topic, explanation, result) ==
    JDict(<< <<Key("app"), JStr(APP_NAME)>>,
             <<Key("created_at"), JStr(Timestamp(now))>>,
             <<Key("topic"), JStr(topic)>>,
             <<Key("explanation"), JStr(explanation)>>,
             <<Key("char_count"), JInt(count_chars(explanation))>>,
             <<Key("result"), result>> >>)

\* A chunk the UTF-8 codec cannot encode: f.write raises UnicodeEncodeError.
Unencodable(chunk) == "UD800" \in Range(chunk.v)

FirstUnencodable(chunks) ==
    IF \E i \in DOMAIN chunks : Unencodable(chunks[i])
    THEN CHOOSE i \in DOMAIN chunks :
            /\ Unencodable(chunks[i])
            /\ \A j \in 1..(i - 1) : ~Unencodable(chunks[j])
    ELSE 0

NoExc == [type |-> "none", parts |-> {}]
Exc(type, parts) == [type |-> type, parts |-> parts]

\* The file system's behaviour during one save: the open succeeds, or fails
\* (the directory is not writable).
FsOk == [kind |-> "ok"]
FsOpenFails == [kind |-> "open_fails"]

Put(fs, name, content) ==
    [p \in DOMAIN fs \cup {name} |-> IF p = name THEN content ELSE fs[p]]

\* save_record: open(path, "w") creates or truncates the file, json.dump writes
\* the chunks one by one, an exception leaves what was written so far.
save_record(fs, now, topic, explanation, result, io) ==
    LET path == RecordName(now, topic)
        payload == Payload(now, topic, explanation, result)
        chunks == IterEncode(payload, FALSE)
        stop == FirstUnencodable(chunks)
    IN  IF io.kind = "open_fails"
        THEN [files |-> fs, path |-> path, payload |-> payload, ok |-> FALSE,
              exc |-> Exc("OSError", {"cause"})]
        ELSE IF stop # 0
        THEN [files |-> Put(fs, path, SubSeq(chunks, 1, stop - 1)), path |-> path,
              payload |-> payload, ok |-> FALSE,
              exc |-> Exc("UnicodeEncodeError", {"cause"})]
        ELSE [files |-> Put(fs, path, chunks), path |-> path, payload |-> payload,
              ok |-> TRUE, exc |-> NoExc]

\* File names compare character by character, by code.
Code(c) == CHOOSE i \in DOMAIN Ascii : Ascii[i] = c

RECURSIVE LexLess(_, _)
LexLess(a, b) ==
    IF b = <<>> THEN FALSE
    ELSE IF a = <<>> THEN TRUE
    ELSE IF Head(a) = Head(b) THEN LexLess(Tail(a), Tail(b))
    ELSE Code(Head(a)) < Code(Head(b))

\* sorted(names, reverse=True)
RECURSIVE SortedReverse(_)
SortedReverse(names) ==
    IF names = {} THEN <<>>
    ELSE LET top == CHOOSE a \in names : \A b \in names \ {a} : LexLess(b, a)
         IN  <<top>> \o SortedReverse(names \ {top})

\* One pass of load_history's loop body: the record of one file, or nothing.
LoadOne(fs, name) ==
    LET p == JsonLoads(fs[name])
    IN  IF p.ok /\ p.v.ty = "dict"
        THEN <<JDict(Append(p.v.items, <<Key("_file"), JStr(name)>>))>>
        ELSE <<>>

RECURSIVE LoadAll(_, _)
LoadAll(fs, names) ==
    IF names = <<>> THEN <<>>
    ELSE LoadOne(fs, Head(names)) \o LoadAll(fs, Tail(names))

load_history(fs, limit) == LoadAll(fs, Take(SortedReverse(DOMAIN fs), limit))

----------------------------------------------------------------------------
(* The diagnosis client and the two pipelines *)

\* What the text-generation service does with one request: a transport
\* failure, or a reply whose content is some text.
ServiceError == [kind |-> "error", content |-> <<>>]
ServiceReply(toks) == [kind |-> "text", content |-> toks]

\* A slip: a transport failure is swallowed and an empty result returned.
evaluate_SwallowsTransport(pipeline, reply) ==
    IF reply.kind = "error"
    THEN [ok |-> TRUE, result |-> JDict(<<>>), exc |-> NoExc]
    ELSE LET p == JsonLoads(reply.content)
         IN  IF p.ok THEN [ok |-> TRUE, result |-> p.v, exc |-> NoExc]
             ELSE [ok |-> FALSE, result |-> JInt(0),
                   exc |-> IF pipeline = "cli" THEN Exc("RuntimeError", {"reason", "raw"})
                           ELSE Exc("JSONDecodeError", {"reason"})]

\* evaluate: client.chat.completions.create raises on a transport failure;
\* otherwise the content is parsed.  An exception is modelled by its type and
\* by what its message holds: the underlying "cause", the decode "reason",
\* the "raw" reply text.
evaluate(pipeline, reply) ==
    IF reply.kind = "error"
    THEN [ok |-> FALSE, result |-> JInt(0), exc |-> Exc("APIError", {"cause"})]
    ELSE LET p == JsonLoads(reply.content)
         IN  IF p.ok THEN [ok |-> TRUE, result |-> p.v, exc |-> NoExc]
             ELSE [ok |-> FALSE, result |-> JInt(0),
                   exc |-> IF pipeline = "cli" THEN Exc("RuntimeError", {"reason", "raw"})
                           ELSE Exc("JSONDecodeError", {"reason"})]

\* print_result / render_diagnosis_result call result.get: a reply that is
\* valid JSON but no object raises AttributeError.
Present(result) ==
    IF result.ty = "dict" THEN NoExc ELSE Exc("AttributeError", {"cause"})

\* The classes `except Exception` catches.
ExceptionClasses ==
    {"APIError", "RuntimeError", "JSONDecodeError", "AttributeError",
     "UnicodeEncodeError", "OSError"}

\* What the handler shows for an exception.  main prints the exception; the
\* button handler shows a fixed text for JSONDecodeError and the exception
\* otherwise.
ShowError(pipeline, exc) ==
    IF pipeline = "web" /\ exc.type = "JSONDecodeError"
    THEN [kind |-> "error", parts |-> {}]
    ELSE [kind |-> "error", parts |-> exc.parts]

Outcome(op, rawTopic, reply, v, requested, exc, saveCalled, saveOk, path, payload, ui, shown) ==
    [op |-> op, rawTopic |-> rawTopic, reply |-> reply, verdict |-> v,
     requested |-> requested, exc |-> exc,
     uncaught |-> (exc.type # "none" /\ exc.type \notin ExceptionClasses),
     saveCalled |-> saveCalled, saveOk |-> saveOk, path |-> path,
     payload |-> payload, ui |-> ui, shown |-> shown]

NoReply == [kind |-> "none", content |-> <<>>]
NoUi == [kind |-> "none", parts |-> {}]

Idle ==
    Outcome("none", <<>>, NoReply, Verdict(FALSE, "unset", 0, 0), FALSE, NoExc,
            FALSE, FALSE, <<>>, JDict(<<>>), NoUi, FALSE)

\* One interaction from validated-or-not inputs on: validate, evaluate,
\* present, save, with the try/except around the last three.
Interact(op, pipeline, key, fs, now, rawTopic, topic, explanation, reply, io) ==
    LET v == validate_input(pipeline, key, topic, explanation)
        e == evaluate(pipeline, reply)
        shown == Present(e.result)
        sv == save_record(fs, now, topic, explanation, e.result, io)
        none == JDict(<<>>)
    IN  IF ~v.ok
        THEN [files |-> fs,
              out |-> Outcome(op, rawTopic, NoReply, v, FALSE, NoExc, FALSE, FALSE,
                              <<>>, none, [kind |-> "warning", parts |-> {v.kind}], FALSE)]
        ELSE IF ~e.ok
        THEN [files |-> fs,
              out |-> Outcome(op, rawTopic, reply, v, TRUE, e.exc, FALSE, FALSE,
                              <<>>, none, ShowError(pipeline, e.exc), FALSE)]
        ELSE IF shown.type # "none"
        THEN [files |-> fs,
              out |-> Outcome(op, rawTopic, reply, v, TRUE, shown, FALSE, FALSE,
                              <<>>, none, ShowError(pipeline, shown), FALSE)]
        ELSE IF ~sv.ok
        THEN [files |-> sv.files,
              out |-> Outcome(op, rawTopic, reply, v, TRUE, sv.exc, TRUE, FALSE,
                              sv.path, sv.payload, ShowError(pipeline, sv.exc), TRUE)]
        ELSE [files |-> sv.files,
              out |-> Outcome(op, rawTopic, reply, v, TRUE, NoExc, TRUE, TRUE,
                              sv.path, sv.payload, [kind |-> "saved", parts |-> {}], TRUE)]

----------------------------------------------------------------------------
(* Spec: the two pipelines over one record store *)

\* Bounds: the number of interactions and the seconds on the clock.
MaxOps == 2
MaxClock == 1

\* load_history is called with the history page's limit and with a limit
\* smaller than the number of files the store can hold.
Limits == {1, HISTORY_LIMIT}

\* Topics typed by the user: empty, blank, and two that share a slug.
Topics == {<<>>, <<" ">>, <<"a">>, <<"A">>}

\* Explanations: 40 characters, and MIN_CHARS characters with a non-ASCII
\* character and a quote among them.
Explanations ==
    {Pad("a", 40), Pad("a", MIN_CHARS - 2) \o <<"U3042", "\"">>}

\* Results the service may send: a diagnosis with non-ASCII text and a quote,
\* and one whose text holds a lone surrogate (sent as the escape \ud800).
Results ==
    {JDict(<< <<Key("score"), JInt(72)>>,
              <<Key("improved_explanation"), JStr(<<"U3042", "\"">>)>> >>),
     JDict(<< <<Key("score"), JInt(72)>>,
              <<Key("improved_explanation"), JStr(<<"UD800">>)>> >>)}

\* The service's own serialisation of a flat result (ASCII with escapes).
RECURSIVE ReplyItems(_)
ReplyItems(kvs) ==
    IF kvs = <<>> THEN <<>>
    ELSE LET val == kvs[1][2]
         IN  <<Tok("str", Escape(kvs[1][1], TRUE)), Punct(":"),
               IF val.ty = "str" THEN Tok("str", Escape(val.s, TRUE))
               ELSE Tok("num", IntToDigits(val.n))>>
               \o (IF Len(kvs) > 1 THEN <<Punct(",")>> ELSE <<>>)
               \o ReplyItems(Tail(kvs))

ReplyText(r) == <<Punct("{")>> \o ReplyItems(r.items) \o <<Punct("}")>>

Replies ==
    {ServiceError, ServiceReply(<<Tok("raw", <<"not json">>)>>)}
        \cup {ServiceReply(ReplyText(r)) : r \in Results}

IoOutcomes == {FsOk, FsOpenFails}

\* No history page has been rendered since the last interaction.
NoHistory == [called |-> FALSE, limit |-> 0, records |-> <<>>]

Init ==
    /\ files = <<>>
    /\ clock = 0
    /\ api_key \in BOOLEAN
    /\ last = Idle
    /\ history = NoHistory
    /\ log = {}
    /\ ops = 0
    /\ SlugIdle
    /\ ValidateIdle

\* The service is asked only once the input has passed validation, and the
\* file system only once the reply has been parsed and presented.
RepliesFor(pipeline, topic, explanation) ==
    IF validate_input(pipeline, api_key, topic, explanation).ok THEN Replies
    ELSE {NoReply}

IoFor(pipeline, reply) ==
    LET e == evaluate(pipeline, reply)
    IN  IF reply.kind = "text" /\ e.ok /\ Present(e.result).type = "none"
        THEN IoOutcomes ELSE {FsOk}

\* app.py main(): the module only loads with an API key; the topic and the
\* explanation are stripped on input.
Main ==
    /\ api_key
    /\ ops < MaxOps
    /\ \E rawTopic \in Topics, rawExplanation \in Explanations :
          LET topic == Strip(rawTopic, Whitespace)
              explanation == Strip(rawExplanation, Whitespace)
          IN  \E reply \in RepliesFor("cli", topic, explanation) :
              \E io \in IoFor("cli", reply) :
                 LET r == Interact("main", "cli", api_key, files, clock, rawTopic,
                                   topic, explanation, reply, io)
                 IN  /\ files' = r.files
                     /\ last' = r.out
    /\ ops' = ops + 1
    /\ history' = NoHistory
    /\ UNCHANGED <<clock, api_key, log, slugVars, validateVars>>

\* web_app.py, the "diagnose" button: the widgets' values go to
\* validate_input as typed.
Diagnose ==
    /\ ops < MaxOps
    /\ \E rawTopic \in Topics, rawExplanation \in Explanations :
          \E reply \in RepliesFor("web", rawTopic, rawExplanation) :
          \E io \in IoFor("web", reply) :
             LET r == Interact("diagnose", "web", api_key, files, clock, rawTopic,
                               rawTopic, rawExplanation, reply, io)
             IN  /\ files' = r.files
                 /\ last' = r.out
    /\ ops' = ops + 1
    /\ history' = NoHistory
    /\ UNCHANGED <<clock, api_key, log, slugVars, validateVars>>

\* web_app.py, the history page (limit 50), and load_history with any limit.
\* Nothing is logged for a skipped file.
History ==
    /\ \E limit \in Limits :
          history' = [called |-> TRUE, limit |-> limit,
                      records |-> load_history(files, limit)]
    /\ UNCHANGED <<files, clock, api_key, last, log, ops, slugVars, validateVars>>

\* A second passes.
Tick ==
    /\ clock < MaxClock
    /\ clock' = clock + 1
    /\ UNCHANGED <<files, api_key, last, history, log, ops, slugVars, validateVars>>

Next == Main \/ Diagnose \/ History \/ Tick

Spec == Init /\ [][Next]_vars

----------------------------------------------------------------------------
(* Claims about the pipelines and the record store *)

\* The service replied and the reply text is not valid JSON.
MalformedReply(reply) == reply.kind = "text" /\ ~JsonLoads(reply.content).ok

\* The step is an interaction (main or the diagnose button ran).
Interacted == ops' # ops

WithFile(payload, name) == JDict(Append(payload.items, <<Key("_file"), JStr(name)>>))

\* The content of the file is a complete JSON text.
Complete(fs, name) == JsonLoads(fs[name]).ok

\* C1 (as stated): whenever the service replies and the reply is not valid
\* JSON, evaluate fails with an error whose message holds both the decode
\* failure reason and the raw reply text, and in both pipelines the failure is
\* caught and shown to the user instead of ending the process.
C1_ParseErrorSurfaced ==
    MalformedReply(last.reply) =>
        /\ last.exc.type \in {"RuntimeError", "JSONDecodeError"}
        /\ {"reason", "raw"} \subseteq last.exc.parts
        /\ ~last.uncaught
        /\ last.ui.kind = "error"

\* C2: in every interaction where the call to the service fails at the
\* transport level, evaluate fails with an error carrying the cause, save is
\* not invoked, and the files of the store are what they were before.
C2_TransportFailureWritesNothing ==
    [][(Interacted /\ last'.reply.kind = "error") =>
          /\ last'.requested
          /\ last'.exc.type = "APIError"
          /\ "cause" \in last'.exc.parts
          /\ ~last'.uncaught
          /\ ~last'.saveCalled
          /\ files' = files]_vars

\* C2: a transport failure has happened in an interaction that found a record
\* in the store.
C2_Witness ==
    /\ last.reply.kind = "error"
    /\ last.requested
    /\ \E p \in DOMAIN files : Complete(files, p)

\* C3 (as stated): after any call to save, either the complete serialized
\* record is at its path, or save has failed and no file with partial content
\* is at that path.
C3_AllOrNothing ==
    last.saveCalled =>
        IF last.saveOk
        THEN /\ last.path \in DOMAIN files
             /\ files[last.path] = IterEncode(last.payload, FALSE)
        ELSE /\ last.exc.type # "none"
             /\ (last.path \in DOMAIN files => Complete(files, last.path))

\* C4 (as stated, for the saves that succeed): every record persisted before a
\* save still exists after it with unchanged content.
C4_NeverOverwrites ==
    [][(Interacted /\ last'.saveOk) =>
          \A p \in DOMAIN files :
              Complete(files, p) => (p \in DOMAIN files' /\ files'[p] = files[p])]_vars

\* C4 (amended): no step removes a file of the store, and a step changes the
\* content of an existing file only if it is a save whose file name (the
\* timestamp of the current second and the slug of its topic) is that file's.
C4_OnlyOwnNameChanges ==
    [][\A p \in DOMAIN files :
          /\ p \in DOMAIN files'
          /\ files'[p] # files[p] =>
                /\ Interacted
                /\ last'.saveCalled
                /\ p = last'.path
                /\ SubSeq(p, 1, 2) = Timestamp(clock)]_vars

\* C4: a save has succeeded and the store holds its record next to an older,
\* complete one.
C4_Witness ==
    /\ last.saveOk
    /\ \E p \in DOMAIN files : p # last.path /\ Complete(files, p)

\* C5 (as stated): the record saved last, reloaded through load_history, is a
\* structure equal to the one that was saved (same top-level keys).
C5_RoundTripEqual ==
    (last.saveOk /\ history.called /\ history.limit = HISTORY_LIMIT) =>
        \E i \in DOMAIN history.records : history.records[i] = last.payload

\* C5 (amended): the record saved last, reloaded through load_history (the
\* record being among the `limit` newest file names), is the structure that
\* was saved, every key and value of it preserved exactly, followed by one more
\* top-level key, _file, that holds the path of its file.
C5_RoundTripWithFile ==
    (last.saveOk /\ history.called /\ history.limit = HISTORY_LIMIT) =>
        \E i \in DOMAIN history.records :
            history.records[i] = WithFile(last.payload, last.path)

\* C5: a record with non-ASCII text and a quote has been saved and the
\* history loaded after it.
C5_Witness ==
    /\ last.saveOk
    /\ history.called
    /\ history.limit = HISTORY_LIMIT
    /\ \E i \in DOMAIN last.payload.items :
          {"U3042", "\""} \subseteq Range(last.payload.items[i][2].s)

\* The names of the files that load as a record, newest first.
ValidNames(fs) ==
    SelectSeq(SortedReverse(DOMAIN fs),
              LAMBDA name : Complete(fs, name) /\ JsonLoads(fs[name]).v.ty = "dict")

\* C6 (as stated): load_history(limit) returns the records in reverse order
\* of file name, at most limit of them, skips and logs every entry that is
\* not valid JSON, and the skipped entries do not keep the remaining valid
\* records, up to limit, from being returned.
C6_ListRecent ==
    history.called =>
        LET names == Take(ValidNames(files), history.limit)
            newest == Take(SortedReverse(DOMAIN files), history.limit)
        IN  /\ history.records = [i \in DOMAIN names |-> LoadOne(files, names[i])[1]]
            /\ \A i \in DOMAIN newest : ~Complete(files, newest[i]) => newest[i] \in log

\* C8 (as stated): for every topic that is empty after trimming whitespace,
\* validate fails with the topic-required message, no request is issued and
\* no record is saved, in either pipeline.
C8_BlankTopicRejected ==
    (last.op # "none" /\ Strip(last.rawTopic, Whitespace) = <<>>) =>
        /\ ~last.verdict.ok
        /\ last.verdict.kind = "topic_required"
        /\ ~last.requested
        /\ ~last.saveCalled

====
